---------------------------- MODULE Spec2Model ----------------------------
(***************************************************************************)
(* A model of src/app.py, the Flask backend of the email finder.           *)
(*                                                                         *)
(* Python strings are TLA+ strings; Len, SubSeq and \o act on them as on   *)
(* sequences of characters.  Time is counted in ticks of 0.1 s, the value  *)
(* of DELAY_BETWEEN_REQUESTS, so that every configured duration is an      *)
(* integer.                                                                *)
(***************************************************************************)
EXTENDS Integers, Sequences, FiniteSets, TLC

(***************************************************************************)
(* Configuration (src/app.py lines 16-19), in ticks of 0.1 s.              *)
(***************************************************************************)
MAX_DOMAINS_PER_REQUEST == 10
REQUEST_TIMEOUT == 280
SCRAPING_TIMEOUT == 30
DELAY_BETWEEN_REQUESTS == 1

(***************************************************************************)
(* Python string primitives.                                               *)
(***************************************************************************)
Max(S) == CHOOSE m \in S : \A n \in S : n <= m

\* the character s[i] (1-based), the empty string outside the string
Ch(s, i) == IF i >= 1 /\ i <= Len(s) THEN SubSeq(s, i, i) ELSE ""

StartsWith(s, p) == Len(s) >= Len(p) /\ SubSeq(s, 1, Len(p)) = p

EndsWith(s, p) == Len(s) >= Len(p) /\ SubSeq(s, Len(s) - Len(p) + 1, Len(s)) = p

Drop(s, n) == SubSeq(s, n + 1, Len(s))

\* x in s, for Python strings: the empty string is in every string
Contains(s, x) == \E i \in 0..(Len(s) - Len(x)) : SubSeq(s, i + 1, i + Len(x)) = x

\* the least i with s[i+1..i+Len(x)] = x, or -1 (str.find)
Find(s, x) ==
  IF Contains(s, x)
  THEN CHOOSE i \in 0..(Len(s) - Len(x)) :
         /\ SubSeq(s, i + 1, i + Len(x)) = x
         /\ \A j \in 0..(i - 1) : SubSeq(s, j + 1, j + Len(x)) # x
  ELSE -1

UpperLetters == "ABCDEFGHIJKLMNOPQRSTUVWXYZ"
LowerLetters == "abcdefghijklmnopqrstuvwxyz"
Digits == "0123456789"

CharsOf(s) == {SubSeq(s, i, i) : i \in 1..Len(s)}
Upper == CharsOf(UpperLetters)
Letters == CharsOf(UpperLetters) \cup CharsOf(LowerLetters)
Alnum == Letters \cup CharsOf(Digits)
Space == {" ", "\t", "\n", "\r", "\f"}

LowerOf == [c \in Upper |-> Ch(LowerLetters, Find(UpperLetters, c) + 1)]

LowerChar(c) == IF c \in Upper THEN LowerOf[c] ELSE c

RECURSIVE Lower(_)
\* str.lower()
Lower(s) == IF s = "" THEN "" ELSE LowerChar(Ch(s, 1)) \o Lower(Drop(s, 1))

RECURSIVE LStrip(_)
LStrip(s) == IF s # "" /\ Ch(s, 1) \in Space THEN LStrip(Drop(s, 1)) ELSE s

RECURSIVE RStrip(_)
RStrip(s) == IF s # "" /\ Ch(s, Len(s)) \in Space THEN RStrip(SubSeq(s, 1, Len(s) - 1)) ELSE s

\* str.strip()
Strip(s) == RStrip(LStrip(s))

RECURSIVE RemoveAll(_, _)
\* s.replace(x, ''), x not empty: every non-overlapping occurrence, left to right
RemoveAll(s, x) ==
  LET i == Find(s, x)
  IN  IF i < 0 THEN s ELSE SubSeq(s, 1, i) \o RemoveAll(Drop(s, i + Len(x)), x)

\* s.split(x)[0]
SplitFirst(s, x) == LET i == Find(s, x) IN IF i < 0 THEN s ELSE SubSeq(s, 1, i)

(***************************************************************************)
(* clean_domain (src/app.py lines 27-33).                                  *)
(***************************************************************************)
\* re.sub(r'^https?://', '', s): case-sensitive, anchored at the start
SubScheme(s) ==
  IF StartsWith(s, "https://") THEN Drop(s, 8)
  ELSE IF StartsWith(s, "http://") THEN Drop(s, 7)
  ELSE s

\* re.sub(r'^www\.', '', s)
SubWww(s) == IF StartsWith(s, "www.") THEN Drop(s, 4) ELSE s

\* re.sub(r'/$', '', s): $ matches at the end and before a final newline
SubSlashEnd(s) ==
  IF EndsWith(s, "/") THEN SubSeq(s, 1, Len(s) - 1)
  ELSE IF EndsWith(s, "/\n") THEN SubSeq(s, 1, Len(s) - 2) \o "\n"
  ELSE s

clean_domain(domain) == SubSlashEnd(SubWww(SubScheme(Strip(domain))))

(***************************************************************************)
(* extract_emails_from_text (src/app.py lines 35-53).                      *)
(***************************************************************************)
\* the character classes of email_pattern (line 37), and \w
WordChars == Alnum \cup {"_"}
LocalChars == Alnum \cup {".", "_", "%", "+", "-"}
DomChars == Alnum \cup {".", "-"}
TldChars == Letters \cup {"|"}

\* \b between the characters k and k+1 of s
Boundary(s, k) == (Ch(s, k) \in WordChars) # (Ch(s, k + 1) \in WordChars)

RECURSIVE RunEnd(_, _, _)
\* the last index of the longest run of characters of class starting at i
\* (i-1: no such character at i)
RunEnd(s, i, class) == IF Ch(s, i) \in class THEN RunEnd(s, i + 1, class) ELSE i - 1

\* the ends e of a tld of two or more characters that starts at q and ends at
\* a word boundary
TldEnds(s, q) == {e \in (q + 1)..RunEnd(s, q, TldChars) : Boundary(s, e)}

\* the places of the '\.' that a match starting at i may use: a dot of the
\* domain run, after at least one domain character, followed by a tld
MatchDots(s, i) ==
  LET a == RunEnd(s, i, LocalChars)
      b == RunEnd(s, a + 2, DomChars)
  IN  IF Boundary(s, i - 1) /\ a >= i /\ Ch(s, a + 1) = "@"
      THEN {p \in (a + 3)..b : Ch(s, p) = "." /\ TldEnds(s, p + 1) # {}}
      ELSE {}

\* the last index of the match of email_pattern starting at i, 0 when there is
\* none: the quantifiers are greedy, so the last usable dot, then the longest tld
MatchEnd(s, i) ==
  LET dots == MatchDots(s, i)
  IN  IF dots = {} THEN 0 ELSE Max(TldEnds(s, Max(dots) + 1))

RECURSIVE FindAllFrom(_, _)
FindAllFrom(s, i) ==
  IF i > Len(s) THEN <<>>
  ELSE LET e == MatchEnd(s, i)
       IN  IF e > 0 THEN <<SubSeq(s, i, e)>> \o FindAllFrom(s, e + 1)
           ELSE FindAllFrom(s, i + 1)

\* re.findall(email_pattern, text)
FindAllEmails(text) == FindAllFrom(text, 1)

\* the literals of lines 48-49
GenericPrefixes ==
  {"info@", "contact@", "admin@", "support@", "hello@", "sales@", "press@", "team@"}

\* the condition of lines 45-50 on email_lower
IsRelevant(email_lower, domain) ==
  \/ Contains(email_lower, domain)
  \/ Contains(email_lower, SplitFirst(domain, "."))
  \/ \E x \in GenericPrefixes : Contains(email_lower, x)

extract_emails_from_text(text, domain) ==
  LET emails == FindAllEmails(text)
      lowered == [k \in 1..Len(emails) |-> Lower(emails[k])]
  IN  {lowered[k] : k \in {j \in 1..Len(emails) : IsRelevant(lowered[j], domain)}}

(***************************************************************************)
(* The inputs: the JSON values of a request's "domains" list and what the  *)
(* fetched sites answer.                                                   *)
(***************************************************************************)
\* bound: the length of the lists whose domains are crawled
MaxLen == 3

\* a JSON string, and JSON null (a value of the list that is not a string)
JStr(s) == [t |-> "str", v |-> s]
JNull == [t |-> "null", v |-> ""]

\* the strings a request names its sites by: a URL, and a bare host name
RawStrings == <<"https://www.Example.com/", "example.com">>

\* the values at place i of a list: one of the strings, by turns, or null
RawAt(i) == {JStr(RawStrings[((i - 1) % Len(RawStrings)) + 1]), JNull}

RawDomains == {JStr(RawStrings[k]) : k \in 1..Len(RawStrings)} \cup {JNull}

RECURSIVE SeqsUpTo(_, _)
\* the sequences over S of length at most n
SeqsUpTo(S, n) ==
  IF n = 0 THEN {<<>>}
  ELSE SeqsUpTo(S, n - 1) \cup
       {Append(q, x) : q \in {r \in SeqsUpTo(S, n - 1) : Len(r) = n - 1}, x \in S}

\* lists of exactly the maximum accepted length, and of one more (the
\* validation of lines 135-145 looks at the length only)
BoundaryLists ==
  {[i \in 1..n |-> JNull] : n \in {MAX_DOMAINS_PER_REQUEST, MAX_DOMAINS_PER_REQUEST + 1}}

\* the lists of at most MaxLen values
ShortLists ==
  {q \in UNION {[1..n -> RawDomains] : n \in 0..MaxLen} : \A i \in 1..Len(q) : q[i] \in RawAt(i)}

DomainLists == ShortLists \cup BoundaryLists

\* a parsed page: the href of its anchors, its text (soup.get_text()) and the
\* values of its data-email attributes, in document order
PageMailto == [anchors |-> <<"mailto:Info@Example.com">>, text |-> "", data |-> <<>>]
PageRich ==
  [anchors |-> <<"mailto:a@example.com?subject=Hi", "/about">>,
   text |-> "Write to team@example.com", data |-> <<"Press Office">>]
PageEmpty == [anchors |-> <<>>, text |-> "", data |-> <<>>]

Pages == {PageMailto, PageRich, PageEmpty}

\* how long a fetch that returns a response may take: no time to speak of, or
\* a body that trickles in (timeout= bounds each socket wait, not the download)
SlowResponse == REQUEST_TIMEOUT

\* the responses of status 200: a page and the ticks the fetch took
Responses200 ==
  {[page |-> p, took |-> 0] : p \in Pages} \cup {[page |-> PageRich, took |-> SlowResponse]}

(***************************************************************************)
(* scrape_website (src/app.py lines 55-114): the work on one response.     *)
(***************************************************************************)
\* a variant of paths: the contact page first
PathsContactFirst == <<"/contatti", "">>

\* lines 60-63
paths == <<"", "/contatti">>

EarlyStopThreshold == 3

\* lines 84-87
MailtoEmails(page) ==
  {Lower(SplitFirst(RemoveAll(page.anchors[k], "mailto:"), "?")) :
     k \in {j \in 1..Len(page.anchors) : StartsWith(page.anchors[j], "mailto:")}}

\* a variant of DataEmails: a data-email value is kept only if it holds one of
\* the generic prefixes of the relevance filter
DataEmailsFiltered(page) ==
  {Lower(page.data[k]) :
     k \in {j \in 1..Len(page.data) :
              \E x \in GenericPrefixes : Contains(Lower(page.data[j]), x)}}

\* lines 95-96
DataEmails(page) == {Lower(page.data[k]) : k \in 1..Len(page.data)}

\* lines 83-96: what a 200 response adds to all_emails
PageEmails(page, dom) ==
  MailtoEmails(page) \cup extract_emails_from_text(page.text, dom) \cup DataEmails(page)

\* PageEmails over the pages and the domains of the model
CrawlDoms == {clean_domain(clean_domain(d.v)) : d \in RawDomains}
Extracted == [page \in Pages, dom \in CrawlDoms |-> PageEmails(page, dom)]

\* a variant of EarlyStop: the crawl stops only above the threshold
EarlyStopAbove(emails) == Cardinality(emails) > EarlyStopThreshold

\* line 99
EarlyStop(emails) == Cardinality(emails) >= EarlyStopThreshold

(***************************************************************************)
(* find_emails (src/app.py lines 130-197), one request.                    *)
(***************************************************************************)
VARIABLES
  domains,     \* data.get('domains', [])
  pc,          \* where the handler is
  response,    \* what the handler returned
  results,     \* line 147
  clock,       \* time.time() - start_time, in ticks
  idx,         \* the 1-based place in domains of the loop of line 150
  clean_dom,   \* line 166
  path_i,      \* the 1-based place in paths of the loop of line 70
  all_emails,  \* line 65
  log,         \* history: one entry per requests.get issued
  call,        \* a function of the module applied on its own: its arguments and results
  reqs         \* requests handled at the same time: the locals of each call of find_emails

vars ==
  <<domains, pc, response, results, clock, idx, clean_dom, path_i, all_emails, log, call,
    reqs>>

\* the state of the handler
handler == <<domains, pc, response, results, clock, idx, clean_dom, path_i, all_emails, log>>

NoCall == [f |-> "none"]

\* no requests handled at the same time
NoRequests == <<>>

NoResponse == [code |-> 0]

\* clean_domain raises (AttributeError at line 29) on a value that is no string
Raises(d) == d.t # "str"

RECURSIVE SumCounts(_)
SumCounts(rs) == IF rs = <<>> THEN 0 ELSE Head(rs).count + SumCounts(Tail(rs))

TimeoutOutcome(d) ==
  [domain |-> clean_domain(d.v), emails |-> {}, count |-> 0, status |-> "timeout",
   error |-> "Timeout globale raggiunto"]

\* a variant of CrawlOutcome: the status does not look at the addresses
CrawlOutcomeSuccess(dom, emails) ==
  [domain |-> dom, emails |-> emails, count |-> Cardinality(emails),
   status |-> "success", error |-> ""]

\* lines 170-175; a success outcome has no 'error' key, modelled as ""
CrawlOutcome(dom, emails) ==
  [domain |-> dom, emails |-> emails, count |-> Cardinality(emails),
   status |-> IF emails # {} THEN "success" ELSE "empty", error |-> ""]

Init ==
  /\ domains \in DomainLists
  /\ pc = "received"
  /\ response = NoResponse
  /\ results = <<>>
  /\ clock = 0
  /\ idx = 0
  /\ clean_dom = ""
  /\ path_i = 0
  /\ all_emails = {}
  /\ log = <<>>
  /\ call = NoCall
  /\ reqs = NoRequests

\* lines 135-136
IsEmptyRequest(ds) == Len(ds) = 0

\* a variant of TooMany: a list of exactly the maximum is refused
TooManyAtMax(ds) == Len(ds) >= MAX_DOMAINS_PER_REQUEST

\* line 139
TooMany(ds) == Len(ds) > MAX_DOMAINS_PER_REQUEST

RejectEmpty ==
  /\ pc = "received"
  /\ IsEmptyRequest(domains)
  /\ response' = [code |-> 400, error |-> "Nessun dominio fornito"]
  /\ pc' = "rejected"
  /\ UNCHANGED <<call, reqs, domains, results, clock, idx, clean_dom, path_i, all_emails, log>>

\* lines 139-145
RejectTooMany ==
  /\ pc = "received"
  /\ ~IsEmptyRequest(domains)
  /\ TooMany(domains)
  /\ response' = [code |-> 400, error |-> "Troppi domini", received |-> Len(domains),
                  max_allowed |-> MAX_DOMAINS_PER_REQUEST]
  /\ pc' = "rejected"
  /\ UNCHANGED <<call, reqs, domains, results, clock, idx, clean_dom, path_i, all_emails, log>>

\* lines 147-148
Accept ==
  /\ pc = "received"
  /\ ~IsEmptyRequest(domains)
  /\ ~TooMany(domains)
  /\ results' = <<>>
  /\ clock' = 0
  /\ idx' = 1
  /\ pc' = "loop"
  /\ UNCHANGED <<call, reqs, domains, response, clean_dom, path_i, all_emails, log>>

\* a variant of DeadlinePassed: the deadline counts as passed when just met
DeadlineMet(elapsed) == elapsed >= REQUEST_TIMEOUT

\* a variant of DeadlinePassed: the deadline is not looked at
DeadlineNever(elapsed) == FALSE

\* line 153
DeadlinePassed(elapsed) == elapsed > REQUEST_TIMEOUT

\* the first place from i on whose value clean_domain raises on, Len+1 when none
FirstRaising(ds, i) ==
  IF \E k \in i..Len(ds) : Raises(ds[k])
  THEN CHOOSE k \in i..Len(ds) : Raises(ds[k]) /\ \A j \in i..(k - 1) : ~Raises(ds[j])
  ELSE Len(ds) + 1

\* an exception that leaves find_emails: Flask answers 500
Crash == [code |-> 500, error |-> "AttributeError"]

\* lines 152-164: the deadline has passed; the loop of line 156 appends a
\* timeout outcome for every remaining domain, until clean_domain raises
GlobalTimeout ==
  /\ pc = "loop"
  /\ idx <= Len(domains)
  /\ DeadlinePassed(clock)
  /\ LET k == FirstRaising(domains, idx)
     IN  /\ results' = results \o [j \in 1..(k - idx) |-> TimeoutOutcome(domains[idx + j - 1])]
         /\ IF k <= Len(domains)
            THEN pc' = "crashed" /\ response' = Crash /\ idx' = idx
            ELSE pc' = "loop" /\ response' = response /\ idx' = Len(domains) + 1
  /\ UNCHANGED <<call, reqs, domains, clock, clean_dom, path_i, all_emails, log>>

\* lines 152-153 and 166, the deadline not passed: clean_domain(domain) is
\* evaluated outside the try of line 168
NormalizeRaises ==
  /\ pc = "loop"
  /\ idx <= Len(domains)
  /\ ~DeadlinePassed(clock)
  /\ Raises(domains[idx])
  /\ pc' = "crashed"
  /\ response' = Crash
  /\ UNCHANGED <<call, reqs, domains, results, clock, idx, clean_dom, path_i, all_emails, log>>

\* lines 152-153, 166, 169 and 57-68: the crawl of the domain starts
StartCrawl ==
  /\ pc = "loop"
  /\ idx <= Len(domains)
  /\ ~DeadlinePassed(clock)
  /\ ~Raises(domains[idx])
  /\ clean_dom' = clean_domain(domains[idx].v)
  /\ path_i' = 1
  /\ all_emails' = {}
  /\ pc' = "crawl"
  /\ UNCHANGED <<call, reqs, domains, response, results, clock, idx, log>>

\* line 57: scrape_website cleans its argument again
CrawlDom == clean_domain(clean_dom)

\* line 71
Url == "https://" \o CrawlDom \o paths[path_i]

\* the for loop of line 70 goes on to the next path, or scrape_website returns
\* (line 114) and find_emails appends the outcome (lines 170-175)
NextPath(emails, stop) ==
  IF stop \/ path_i = Len(paths)
  THEN /\ results' = Append(results, CrawlOutcome(clean_dom, emails))
       /\ idx' = idx + 1
       /\ pc' = "loop"
       /\ path_i' = 0
       /\ all_emails' = {}
  ELSE /\ path_i' = path_i + 1
       /\ all_emails' = emails
       /\ UNCHANGED <<results, idx, pc>>

\* d: the place of the domain; url: what was fetched; ok: a response of status
\* 200; page: the page parsed (PageEmpty when none was); took: the ticks
\* requests.get took; got: what the fetch added; n: len(all_emails) after it;
\* delay: line 102 was run
LogEntry(ok, page, took, got, n, delay) ==
  [d |-> idx, url |-> Url, ok |-> ok, page |-> page, took |-> took, got |-> got,
   n |-> n, delay |-> delay]

\* a variant of AfterFailure: a failed fetch loses what was accumulated
AfterFailureReset(emails) == {}

\* what the except clauses of lines 104-112, and a status that is not 200, do
\* to all_emails
AfterFailure(emails) == emails

\* a fetch that fails after `took` ticks
FetchFails(took) ==
  /\ pc = "crawl"
  /\ clock' = clock + took
  /\ log' = Append(log, LogEntry(FALSE, PageEmpty, took, {},
                             Cardinality(AfterFailure(all_emails)), FALSE))
  /\ NextPath(AfterFailure(all_emails), FALSE)
  /\ UNCHANGED <<call, reqs, domains, response, clean_dom>>

\* lines 104-106: requests.exceptions.Timeout
FetchTimeout == FetchFails(SCRAPING_TIMEOUT)

\* lines 107-109: another requests.exceptions.RequestException
FetchRequestException == FetchFails(0)

\* lines 110-112: any other Exception
FetchOtherException == FetchFails(0)

\* line 80: a response whose status is not 200
FetchNot200 == FetchFails(0)

\* a variant of SleepAfter200: no sleep after the last path either
SleepBetweenPaths(stop) ==
  IF stop \/ path_i = Len(paths) THEN 0 ELSE DELAY_BETWEEN_REQUESTS

\* lines 99-102: the ticks slept after a response of status 200 was parsed;
\* the break of line 100 skips the sleep
SleepAfter200(stop) == IF stop THEN 0 ELSE DELAY_BETWEEN_REQUESTS

\* lines 80-102: a response with status 200
Fetch200 ==
  /\ pc = "crawl"
  /\ \E r \in Responses200 :
       LET got == Extracted[r.page, CrawlDom]
           emails == all_emails \cup got
           stop == EarlyStop(emails)
           slept == SleepAfter200(stop)
       IN  /\ clock' = clock + r.took + slept
           /\ log' = Append(log, LogEntry(TRUE, r.page, r.took, got, Cardinality(emails),
                                         slept > 0))
           /\ NextPath(emails, stop)
  /\ UNCHANGED <<call, reqs, domains, response, clean_dom>>

\* a variant of AvgTimePerDomain: the quotient is cut, not rounded
AvgTimeTruncated(total_time, n) == IF n = 0 THEN {0} ELSE {(total_time * 10) \div n}

\* line 196: round(total_time / len(results), 2) if results else 0, in
\* hundredths of a second, total_time being in ticks. A quotient half-way
\* between two hundredths goes where its floating-point value lies (0.1 / 4
\* gives 0.03, 0.5 / 4 gives 0.12): either one
AvgTimePerDomain(total_time, n) ==
  IF n = 0 THEN {0}
  ELSE LET q == (total_time * 10) \div n
           r == (total_time * 10) % n
       IN  IF 2 * r < n THEN {q} ELSE IF 2 * r > n THEN {q + 1} ELSE {q, q + 1}

\* lines 188-197; round(., 2) of line 188 keeps a whole number of ticks as it is
Respond ==
  /\ pc = "loop"
  /\ idx > Len(domains)
  /\ \E avg \in AvgTimePerDomain(clock, Len(results)) :
       response' = [code |-> 200, success |-> TRUE, results |-> results,
                    total_emails |-> SumCounts(results), processed |-> Len(results),
                    elapsed_time |-> clock, avg_time_per_domain |-> avg]
  /\ pc' = "done"
  /\ UNCHANGED <<call, reqs, domains, results, clock, idx, clean_dom, path_i, all_emails, log>>

Next ==
  \/ RejectEmpty
  \/ RejectTooMany
  \/ Accept
  \/ GlobalTimeout
  \/ NormalizeRaises
  \/ StartCrawl
  \/ FetchTimeout
  \/ FetchRequestException
  \/ FetchOtherException
  \/ FetchNot200
  \/ Fetch200
  \/ Respond

Spec == Init /\ [][Next]_vars

\* bound: the number of domains of the lists whose crawls are followed to
\* their end
MaxCrawls == 2

InitFair == Init /\ (Len(domains) <= MaxCrawls \/ domains \in BoundaryLists)

\* the handler runs on: a call of requests.get returns or raises, and the
\* statements between two calls are run
FairSpec == InitFair /\ [][Next]_vars /\ WF_vars(Next)

(***************************************************************************)
(* clean_domain applied on its own, and applied again to its result.       *)
(***************************************************************************)
\* bound: the number of pieces an input of clean_domain is built from
MaxParts == 3

NormParts == {"http://", "https://", "HTTP://", "www.", "/", " ", "a", ".com"}

RECURSIVE Concat(_)
Concat(q) == IF q = <<>> THEN "" ELSE Head(q) \o Concat(Tail(q))

NormInputs == {Concat(q) : q \in SeqsUpTo(NormParts, MaxParts)}

\* no request is being handled
HandlerIdle ==
  /\ domains = <<>>
  /\ pc = "idle"
  /\ response = NoResponse
  /\ results = <<>>
  /\ clock = 0
  /\ idx = 0
  /\ clean_dom = ""
  /\ path_i = 0
  /\ all_emails = {}
  /\ log = <<>>

InitNorm ==
  /\ HandlerIdle
  /\ reqs = NoRequests
  /\ call \in {[f |-> "clean_domain", domain |-> x, ret |-> <<>>] : x \in NormInputs}

\* clean_domain(domain), then clean_domain of what it returned, as lines 166
\* and 57 apply it
CallCleanDomain ==
  /\ call.f = "clean_domain"
  /\ Len(call.ret) < 2
  /\ call' = [call EXCEPT !.ret =
                Append(@, clean_domain(IF @ = <<>> THEN call.domain ELSE @[Len(@)]))]
  /\ UNCHANGED <<handler, reqs>>

SpecNorm == InitNorm /\ [][CallCleanDomain]_vars

(***************************************************************************)
(* extract_emails_from_text applied on its own.                            *)
(***************************************************************************)
\* bound: the number of addresses in a text
MaxAddresses == 2

Addresses ==
  {"sales@example.com", "info@other.org", "random@other.org", "myinfo@other.org",
   "Press@Example.com", "joe@examples.net"}

FilterDomains == {"example.com", "Example.com", "other.org"}

RECURSIVE Join(_)
\* ' '.join(q)
Join(q) ==
  IF q = <<>> THEN ""
  ELSE IF Len(q) = 1 THEN q[1]
  ELSE q[1] \o " " \o Join(Tail(q))

InitFilter ==
  /\ HandlerIdle
  /\ reqs = NoRequests
  /\ call \in {[f |-> "extract_emails_from_text", found |-> q, text |-> Join(q),
                domain |-> d, done |-> FALSE, ret |-> {}] :
                 q \in SeqsUpTo(Addresses, MaxAddresses), d \in FilterDomains}

CallExtract ==
  /\ call.f = "extract_emails_from_text"
  /\ ~call.done
  /\ call' = [call EXCEPT !.done = TRUE,
                          !.ret = extract_emails_from_text(call.text, call.domain)]
  /\ UNCHANGED <<handler, reqs>>

SpecFilter == InitFilter /\ [][CallExtract]_vars

(***************************************************************************)
(* download_csv (src/app.py lines 200-230) applied on its own: the rows    *)
(* handed to writer.writerow, in order.                                    *)
(***************************************************************************)
\* bound: the number of results in the body of the request
MaxResults == 3

\* line 207
CsvHeader == <<"Dominio", "Email", "Status">>

\* line 218
NoEmailFound == "Nessuna email trovata"

\* the results posted: outcomes as find_emails returns them, emails being a
\* JSON list
CsvResults ==
  {[domain |-> "example.com", emails |-> <<"info@example.com">>, status |-> "success"],
   [domain |-> "other.org", emails |-> <<"b@other.org", "a@other.org">>, status |-> "success"],
   [domain |-> "example.com", emails |-> <<>>, status |-> "empty"],
   [domain |-> "other.org", emails |-> <<>>, status |-> "timeout"],
   [domain |-> "x", emails |-> <<>>, status |-> "error"]}

\* a variant of ResultRows: a result without emails gives no row
ResultRowsNoSentinel(result) ==
  [k \in 1..Len(result.emails) |-> <<result.domain, result.emails[k], result.status>>]

\* lines 209-218: the rows of one result
ResultRows(result) ==
  IF result.emails # <<>>
  THEN [k \in 1..Len(result.emails) |-> <<result.domain, result.emails[k], result.status>>]
  ELSE << <<result.domain, NoEmailFound, result.status>> >>

RECURSIVE CsvRows(_)
\* the loop of line 208
CsvRows(rs) == IF rs = <<>> THEN <<>> ELSE ResultRows(Head(rs)) \o CsvRows(Tail(rs))

InitCsv ==
  /\ HandlerIdle
  /\ reqs = NoRequests
  /\ call \in {[f |-> "download_csv", results |-> q, done |-> FALSE, rows |-> <<>>] :
                 q \in SeqsUpTo(CsvResults, MaxResults)}

CallDownloadCsv ==
  /\ call.f = "download_csv"
  /\ ~call.done
  /\ call' = [call EXCEPT !.done = TRUE, !.rows = <<CsvHeader>> \o CsvRows(call.results)]
  /\ UNCHANGED <<handler, reqs>>

SpecCsv == InitCsv /\ [][CallDownloadCsv]_vars

(***************************************************************************)
(* Two calls of find_emails handled at the same time (a threaded server):  *)
(* each call has its own locals; a call is suspended in requests.get and   *)
(* in time.sleep, where the other one may run.                             *)
(***************************************************************************)
Requests == {1, 2}

\* the domains of the two requests
ConcurrentDomains ==
  << <<JStr(RawStrings[1]), JStr(RawStrings[2])>>,
     <<JStr(RawStrings[2]), JStr(RawStrings[1])>> >>

\* the locals of find_emails and of scrape_website when the request arrives
Arrived(ds) ==
  [domains |-> ds, pc |-> "received", response |-> NoResponse, results |-> <<>>,
   clock |-> 0, idx |-> 0, clean_dom |-> "", path_i |-> 0, all_emails |-> {}]

InitConc ==
  /\ HandlerIdle
  /\ call = NoCall
  /\ reqs = [r \in Requests |-> Arrived(ConcurrentDomains[r])]

\* a variant of ResultsOf: one list for all the requests, as a module-level
\* results would be
ResultsShared(r) == 1

\* line 147: results is a local of the call, so the list that request r
\* appends to is its own
ResultsOf(r) == r

\* lines 135-148
ConcAccept(r) ==
  /\ reqs[r].pc = "received"
  /\ ~IsEmptyRequest(reqs[r].domains)
  /\ ~TooMany(reqs[r].domains)
  /\ reqs' = [reqs EXCEPT ![r].pc = "loop", ![r].idx = 1]
  /\ UNCHANGED <<handler, call>>

\* lines 152-164
ConcGlobalTimeout(r) ==
  LET q == reqs[r]
      rest == [j \in 1..(Len(q.domains) - q.idx + 1) |->
                 TimeoutOutcome(q.domains[q.idx + j - 1])]
  IN  /\ q.pc = "loop"
      /\ q.idx <= Len(q.domains)
      /\ DeadlinePassed(q.clock)
      /\ reqs' = [reqs EXCEPT ![ResultsOf(r)].results = @ \o rest,
                              ![r].idx = Len(q.domains) + 1]
      /\ UNCHANGED <<handler, call>>

\* lines 152-153, 166, 169 and 57-68
ConcStartCrawl(r) ==
  LET q == reqs[r]
  IN  /\ q.pc = "loop"
      /\ q.idx <= Len(q.domains)
      /\ ~DeadlinePassed(q.clock)
      /\ ~Raises(q.domains[q.idx])
      /\ reqs' = [reqs EXCEPT ![r].clean_dom = clean_domain(q.domains[q.idx].v),
                              ![r].path_i = 1, ![r].all_emails = {}, ![r].pc = "crawl"]
      /\ UNCHANGED <<handler, call>>

\* the locals after a fetch of request r: the next path, or the outcome
\* appended (lines 114 and 170-175)
AfterFetch(r, took, emails, stop) ==
  LET q == reqs[r]
  IN  IF stop \/ q.path_i = Len(paths)
      THEN [reqs EXCEPT ![ResultsOf(r)].results = Append(@, CrawlOutcome(q.clean_dom, emails)),
                        ![r].idx = q.idx + 1, ![r].pc = "loop", ![r].path_i = 0,
                        ![r].all_emails = {}, ![r].clock = q.clock + took]
      ELSE [reqs EXCEPT ![r].path_i = q.path_i + 1, ![r].all_emails = emails,
                        ![r].clock = q.clock + took]

ConcFetchFails(r, took) ==
  /\ reqs[r].pc = "crawl"
  /\ reqs' = AfterFetch(r, took, AfterFailure(reqs[r].all_emails), FALSE)
  /\ UNCHANGED <<handler, call>>

\* lines 104-106
ConcFetchTimeout(r) == ConcFetchFails(r, SCRAPING_TIMEOUT)

\* lines 107-112, and a status that is not 200
ConcFetchError(r) == ConcFetchFails(r, 0)

\* lines 80-102
ConcFetch200(r) ==
  /\ reqs[r].pc = "crawl"
  /\ \E resp \in Responses200 :
       LET emails == reqs[r].all_emails
                       \cup Extracted[resp.page, clean_domain(reqs[r].clean_dom)]
           stop == EarlyStop(emails)
       IN  reqs' = AfterFetch(r, resp.took + SleepAfter200(stop), emails, stop)
  /\ UNCHANGED <<handler, call>>

\* lines 188-197
ConcRespond(r) ==
  LET q == reqs[r]
  IN  /\ q.pc = "loop"
      /\ q.idx > Len(q.domains)
      /\ \E avg \in AvgTimePerDomain(q.clock, Len(q.results)) :
           reqs' = [reqs EXCEPT ![r].pc = "done",
                      ![r].response =
                        [code |-> 200, success |-> TRUE, results |-> q.results,
                         total_emails |-> SumCounts(q.results),
                         processed |-> Len(q.results), elapsed_time |-> q.clock,
                         avg_time_per_domain |-> avg]]
      /\ UNCHANGED <<handler, call>>

ConcNext ==
  \E r \in Requests :
    \/ ConcAccept(r)
    \/ ConcGlobalTimeout(r)
    \/ ConcStartCrawl(r)
    \/ ConcFetchTimeout(r)
    \/ ConcFetchError(r)
    \/ ConcFetch200(r)
    \/ ConcRespond(r)

SpecConc == InitConc /\ [][ConcNext]_vars

(***************************************************************************)
(* The claims.                                                             *)
(***************************************************************************)
\* clean_domain applied twice (lines 166 and 57) to the strings of the model,
\* and the three methods of lines 84-96 applied to its pages
CleanedTwice == [d \in RawDomains |-> clean_domain(clean_domain(d.v))]
MailtoFound == [page \in Pages |-> MailtoEmails(page)]
TextFound == [page \in Pages, dom \in CrawlDoms |-> extract_emails_from_text(page.text, dom)]
DataLowered == [page \in Pages |-> {Lower(page.data[j]) : j \in 1..Len(page.data)}]

\* the domain scrape_website works with in the crawl of the domain at place i
CrawlDomOf(i) == CleanedTwice[domains[i]]

Accepted == pc \in {"loop", "crawl", "done", "crashed"}
Finished == pc \in {"done", "crashed"}

\* the log entries of the fetches issued for the domain at place i
FetchesOf(i) == {k \in 1..Len(log) : log[k].d = i}

\* the outcomes of the domains that were crawled
Crawled == {i \in 1..Len(results) : results[i].status \in {"success", "empty"}}

\* C1: whenever find_emails has finished with an accepted request, it has
\* returned a results list with exactly one outcome per input domain, the
\* outcome at place i being the one of clean_domain(domains[i]).
C1_OneOutcomePerDomain ==
  (Accepted /\ Finished) =>
    /\ response.code = 200
    /\ Len(response.results) = Len(domains)
    /\ \A i \in 1..Len(domains) :
         ~Raises(domains[i]) => response.results[i].domain = clean_domain(domains[i].v)

\* C2 as stated: at the check before a domain, elapsed >= REQUEST_TIMEOUT
\* (equality included) means that the domain is not crawled.
C2_StopsAtDeadline ==
  [][(pc = "loop" /\ idx <= Len(domains) /\ clock >= REQUEST_TIMEOUT)
       => pc' # "crawl"]_vars

\* C2 amended: at the check before a domain, elapsed > REQUEST_TIMEOUT means
\* that no fetch is issued for this domain or a later one, and that the
\* domains from this one on are marked timeout, with the error text, in input
\* order and up to the first one clean_domain raises on; with elapsed equal to
\* REQUEST_TIMEOUT the domain is still crawled.
C2_StopsAfterDeadline ==
  [][(pc = "loop" /\ idx <= Len(domains)) =>
       /\ clock > REQUEST_TIMEOUT =>
            /\ pc' \in {"loop", "crashed"}
            /\ log' = log
            /\ LET bad == {j \in idx..Len(domains) : Raises(domains[j])}
                   last == IF bad = {} THEN Len(domains)
                           ELSE (CHOOSE j \in bad : \A m \in bad : j <= m) - 1
               IN  /\ Len(results') = last
                   /\ SubSeq(results', 1, idx - 1) = results
                   /\ \A j \in idx..last :
                        /\ results'[j].status = "timeout"
                        /\ results'[j].error = "Timeout globale raggiunto"
                        /\ results'[j].emails = {}
                        /\ results'[j].domain = clean_domain(domains[j].v)
                   /\ (bad = {}) => (pc' = "loop" /\ idx' = Len(domains) + 1)
                   /\ (bad # {}) => pc' = "crashed"
       /\ (clock = REQUEST_TIMEOUT /\ ~Raises(domains[idx])) => pc' = "crawl"]_vars

\* C2's case: past the deadline, a domain that was reached and a later one
\* are both marked timeout and the loop is over
C2_Witness ==
  /\ pc = "loop"
  /\ idx = Len(domains) + 1
  /\ Len(results) >= 2
  /\ results[Len(results) - 1].status = "timeout"
  /\ results[Len(results)].status = "timeout"
  /\ clock > REQUEST_TIMEOUT

\* C3: a domain on which normalization raises gets an outcome of status error
\* with the message, and the batch goes on: the response with the full list
\* of outcomes is returned.
C3_ErrorDoesNotAbort ==
  (Accepted /\ Finished) =>
    /\ response.code = 200
    /\ \A i \in 1..Len(domains) :
         (Raises(domains[i]) /\ Len(response.results) >= i
            /\ response.results[i].status # "timeout")
           => (response.results[i].status = "error" /\ response.results[i].error # "")

\* C4: an empty list and a list of more than MAX_DOMAINS_PER_REQUEST domains
\* are rejected with status 400 before any fetch and with no outcome, the
\* second with the count received and the maximum; a list of 1 to
\* MAX_DOMAINS_PER_REQUEST domains is never rejected.
C4_Validation ==
  pc # "received" =>
    /\ (Len(domains) = 0 \/ Len(domains) > MAX_DOMAINS_PER_REQUEST) =>
         /\ pc = "rejected"
         /\ response.code = 400
         /\ log = <<>>
         /\ results = <<>>
         /\ Len(domains) > MAX_DOMAINS_PER_REQUEST =>
              /\ response.received = Len(domains)
              /\ response.max_allowed = MAX_DOMAINS_PER_REQUEST
    /\ (Len(domains) \in 1..MAX_DOMAINS_PER_REQUEST) => pc # "rejected"

\* C4's case: a list of one more than the maximum has been rejected
C4_Witness ==
  /\ pc = "rejected"
  /\ Len(domains) = MAX_DOMAINS_PER_REQUEST + 1
  /\ response.received = MAX_DOMAINS_PER_REQUEST + 1

\* C5: within the crawl of one domain, a path is fetched after another only
\* if fewer than 3 addresses were accumulated after that other one; a crawl
\* whose first path gives 3 or more issues exactly one fetch; and a crawl
\* that ended with fewer than 3 after its last fetch has fetched every path.
C5_EarlyStop ==
  /\ \A k, m \in 1..Len(log) : (k < m /\ log[k].d = log[m].d) => log[k].n < 3
  /\ \A i \in Crawled :
       LET n == Cardinality(FetchesOf(i))
           last == Max(FetchesOf(i))
       IN  /\ n >= 1
           /\ log[last].n >= 3 => results[i].count >= 3
           /\ log[last].n < 3 => n = Len(paths)
           /\ (\E k \in FetchesOf(i) : log[k].url = "https://" \o CrawlDomOf(i)
                                       /\ log[k].n >= 3) => n = 1
  /\ pc = "crawl" => Cardinality(FetchesOf(idx)) = path_i - 1

\* C5's case: a crawl that reached the threshold on its first path
C5_Witness ==
  \E i \in Crawled : Cardinality(FetchesOf(i)) = 1 /\ results[i].count >= 3

\* C6: a fetch that fails (a timeout, a transport error, another exception, a
\* status that is not 200) adds no address and keeps the addresses accumulated
\* so far, the crawl goes on with the next path, no crawl ends in an error
\* outcome, and the outcome of a crawled domain is the union of what its 200
\* responses gave.
C6_FailuresAbsorbed ==
  /\ \A k \in 1..Len(log) :
       ~log[k].ok =>
         /\ log[k].got = {}
         /\ log[k].n = (IF k > 1 /\ log[k - 1].d = log[k].d THEN log[k - 1].n ELSE 0)
         \* a failure on the homepage, the crawl having gone on: the next
         \* fetch is the next path of the same domain
         /\ (log[k].url = "https://" \o CrawlDomOf(log[k].d)
               /\ (Len(results) >= log[k].d \/ k < Len(log)))
              => (k < Len(log) /\ log[k + 1].d = log[k].d /\ log[k + 1].url = log[k].url \o paths[2])
  /\ \A i \in 1..Len(results) : results[i].status # "error"
  /\ \A i \in Crawled :
       results[i].emails = UNION {log[k].got : k \in {j \in FetchesOf(i) : log[j].ok}}

\* C6's case: a path gave addresses, the next one failed, and the outcome
\* holds the addresses of the first
C6_Witness ==
  \E i \in Crawled : \E k \in FetchesOf(i) :
    /\ log[k].ok
    /\ log[k].got # {}
    /\ k + 1 \in FetchesOf(i)
    /\ ~log[k + 1].ok
    /\ results[i].emails = log[k].got

\* C7: the outcome of a crawled domain has status success iff its addresses
\* are not empty, else empty, and its count is their number; a domain none of
\* whose paths returned 200 has no address, count 0 and status empty.
C7_StatusAndCount ==
  \A i \in Crawled :
    /\ (results[i].status = "success") <=> (results[i].emails # {})
    /\ (results[i].status = "empty") <=> (results[i].emails = {})
    /\ results[i].count = Cardinality(results[i].emails)
    /\ (\A k \in FetchesOf(i) : ~log[k].ok) =>
         (results[i].emails = {} /\ results[i].count = 0 /\ results[i].status = "empty")

\* C7's case: a crawl none of whose paths returned 200
C7_Witness ==
  \E i \in Crawled :
    /\ Cardinality(FetchesOf(i)) = Len(paths)
    /\ \A k \in FetchesOf(i) : ~log[k].ok
    /\ results[i].status = "empty"

\* C8: clean_domain is idempotent: applied to its own result it returns it.
C8_Idempotent ==
  (call.f = "clean_domain" /\ Len(call.ret) = 2) => call.ret[2] = call.ret[1]

\* C9: for ["https://www.Example.com/"], the homepage answering 200 with one
\* anchor to mailto:Info@Example.com and the other path giving nothing, the
\* single outcome is domain "example.com", emails ["info@example.com"],
\* count 1, status "success".
C9_EndToEnd ==
  ( /\ pc = "done"
    /\ domains = <<JStr("https://www.Example.com/")>>
    /\ Len(log) = 2
    /\ log[1].ok /\ log[1].got = MailtoEmails(PageMailto)
    /\ ~log[2].ok )
  => response.results =
       <<[domain |-> "example.com", emails |-> {"info@example.com"}, count |-> 1,
          status |-> "success", error |-> ""]>>

\* the local parts the specification calls generic
GenericLocalParts ==
  {"info", "contact", "admin", "support", "hello", "sales", "press", "team"}

\* C10: of the addresses the scan of the text finds, the filter keeps the
\* lower-cased ones that contain the domain, or the label of the domain before
\* its first dot, or whose local part is a generic one, and no other.
C10_RelevanceFilter ==
  (call.f = "extract_emails_from_text" /\ call.done) =>
    call.ret =
      {Lower(call.found[k]) :
         k \in {j \in 1..Len(call.found) :
                  LET e == Lower(call.found[j])
                  IN  \/ Contains(e, call.domain)
                      \/ Contains(e, SplitFirst(call.domain, "."))
                      \/ SplitFirst(e, "@") \in GenericLocalParts}}

\* C11: every fetch that returned 200 added the lower-cased value of every
\* data-email attribute of its page and the lower-cased target of every mailto
\* anchor, filtered or not; whatever else it added is a text match the
\* relevance filter kept; what it added is the union of the three; and the
\* outcome of the domain holds all of it.
C11_DataEmailUnfiltered ==
  \A k \in 1..Len(log) :
    log[k].ok =>
      LET p == log[k].page
          data == DataLowered[p]
          text == TextFound[p, CrawlDomOf(log[k].d)]
      IN  /\ data \subseteq log[k].got
          /\ log[k].got = MailtoFound[p] \cup text \cup data
          /\ Len(results) >= log[k].d => log[k].got \subseteq results[log[k].d].emails

\* C11's case: a data-email value the relevance filter would not keep is in
\* the outcome of the domain
C11_Witness ==
  \E i \in Crawled : \E k \in FetchesOf(i) :
    /\ log[k].ok
    /\ \E j \in 1..Len(log[k].page.data) :
         LET v == Lower(log[k].page.data[j])
         IN  /\ v \in results[i].emails
             /\ ~Contains(v, CrawlDomOf(i))
             /\ \A x \in GenericPrefixes : ~Contains(v, x)

\* the whole of e is one match of email_pattern (line 37)
IsEmailAddress(e) == Len(e) > 0 /\ MatchEnd(e, 1) = Len(e)

\* C12: every address in the emails of an outcome is lower-cased and matches
\* the e-mail syntax local-part@domain-part, whichever of the three methods
\* gave it.
C12_OnlyEmailAddresses ==
  \A i \in 1..Len(results) : \A e \in results[i].emails :
    e = Lower(e) /\ IsEmailAddress(e)

\* C13 as stated: in a successful response processed is the number of
\* outcomes, total_emails is the sum of their counts, and avg_time_per_domain
\* is elapsed_time divided by processed (0 when processed is 0).
C13_SummaryExact ==
  pc = "done" =>
    /\ response.processed = Len(response.results)
    /\ response.total_emails = SumCounts(response.results)
    /\ IF response.processed = 0 THEN response.avg_time_per_domain = 0
       ELSE response.avg_time_per_domain * response.processed = response.elapsed_time * 10

\* C13 amended: in a successful response processed is the number of outcomes
\* and is at least 1; total_emails is the sum of their counts, which is the
\* number of addresses of the crawled outcomes, a timeout outcome having count
\* 0; and avg_time_per_domain is elapsed_time divided by processed, rounded to
\* the nearest hundredth of a second.
C13_SummaryRounded ==
  pc = "done" =>
    LET rs == response.results
        n == response.processed
    IN  /\ rs = results
        /\ n = Len(rs)
        /\ n >= 1
        /\ response.total_emails = SumCounts(rs)
        /\ response.total_emails =
             Cardinality(UNION {{<<i, e>> : e \in rs[i].emails} : i \in Crawled})
        /\ \A i \in 1..Len(rs) : rs[i].status \in {"timeout", "error"} => rs[i].count = 0
        /\ response.elapsed_time = clock
        /\ LET d == response.avg_time_per_domain * n - response.elapsed_time * 10
           IN  2 * d <= n /\ 2 * (0 - d) <= n

\* C13's case: a response with a timeout outcome and a crawled one that found
\* addresses, whose elapsed time is no multiple of the number of outcomes
C13_Witness ==
  /\ pc = "done"
  /\ \E i \in 1..Len(results) : results[i].status = "timeout"
  /\ \E i \in 1..Len(results) : results[i].count > 0
  /\ (response.elapsed_time * 10) % response.processed # 0
  /\ response.total_emails > 0

\* the number of rows download_csv is to write for the results before place i
RowsBefore(rs, i) ==
  Cardinality(UNION {{<<j, k>> : k \in 1..Max({1, Len(rs[j].emails)})} : j \in 1..(i - 1)})

\* C14 as stated: after the header, one row per (domain, email) pair with the
\* status of the domain, and for a domain without emails exactly one row with
\* the sentinel and a status of zero; the data rows number the sum over the
\* domains of max(1, number of emails).
C14_CsvRowsZeroStatus ==
  (call.f = "download_csv" /\ call.done) =>
    LET rs == call.results
    IN  /\ call.rows[1] = CsvHeader
        /\ Len(call.rows) - 1 = RowsBefore(rs, Len(rs) + 1)
        /\ \A i \in 1..Len(rs) :
             LET at == 1 + RowsBefore(rs, i)
             IN  IF Len(rs[i].emails) = 0
                 THEN call.rows[at + 1] = <<rs[i].domain, "Nessuna email trovata", "0">>
                 ELSE \A k \in 1..Len(rs[i].emails) :
                        call.rows[at + k] = <<rs[i].domain, rs[i].emails[k], rs[i].status>>

\* C14 amended: after the header, one row (domain, email, status of the
\* domain) per email of each domain, in order, and for a domain without emails
\* exactly one row (domain, sentinel, status of the domain); the data rows
\* number the sum over the domains of max(1, number of emails).
C14_CsvRows ==
  (call.f = "download_csv" /\ call.done) =>
    LET rs == call.results
    IN  /\ call.rows[1] = <<"Dominio", "Email", "Status">>
        /\ Len(call.rows) - 1 = RowsBefore(rs, Len(rs) + 1)
        /\ \A i \in 1..Len(rs) :
             LET at == 1 + RowsBefore(rs, i)
             IN  IF Len(rs[i].emails) = 0
                 THEN call.rows[at + 1] = <<rs[i].domain, "Nessuna email trovata", rs[i].status>>
                 ELSE \A k \in 1..Len(rs[i].emails) :
                        call.rows[at + k] = <<rs[i].domain, rs[i].emails[k], rs[i].status>>

\* C14's case: the export of a result with two emails and of one with none
C14_Witness ==
  /\ call.f = "download_csv"
  /\ call.done
  /\ \E i, j \in 1..Len(call.results) :
       Len(call.results[i].emails) = 2 /\ Len(call.results[j].emails) = 0
  /\ Len(call.rows) = 1 + RowsBefore(call.results, Len(call.results) + 1)

\* C15: an outcome of status timeout is one of a domain no fetch was issued
\* for, with no emails and count 0; the timeout outcomes are a suffix of the
\* results; and when find_emails has finished every domain has its outcome,
\* either timeout or that of its crawl: all the domains after one marked
\* timeout are marked timeout, the others were crawled.
C15_TimeoutSuffix ==
  /\ \A i \in 1..Len(results) :
       results[i].status = "timeout" =>
         /\ FetchesOf(i) = {}
         /\ results[i].emails = {}
         /\ results[i].count = 0
         /\ \A j \in i..Len(results) : results[j].status = "timeout"
  /\ (Accepted /\ Finished) =>
       \A i \in 1..Len(domains) :
         /\ i <= Len(results)
         /\ results[i].status # "timeout" => (i \in Crawled /\ FetchesOf(i) # {})

\* the loop of line 150 is over
LoopEnded == pc = "done" \/ (pc = "loop" /\ idx > Len(domains))

\* the fetches of the domain crawled last
LastCrawl == {k \in 1..Len(log) : log[k].d = log[Len(log)].d}

\* the longest a crawl lasts when no fetch takes more than its timeout
WorstCaseCrawl == Len(paths) * (SCRAPING_TIMEOUT + DELAY_BETWEEN_REQUESTS)

C17_DelayBetweenFetches ==
  \A k \in 1..Len(log) :
    Len(results) >= log[k].d =>
      (log[k].delay <=>
         /\ log[k].ok
         /\ log[k].n < EarlyStopThreshold
         /\ k < Len(log)
         /\ log[k + 1].d = log[k].d)

\* C17 amended: a fetch is followed by the delay exactly if it returned 200
\* and did not trigger the early stop, be there another path to fetch or not;
\* the time elapsed grows by the time the fetch took, plus the delay in that
\* case, and by nothing in a step that issues no fetch.
C17_DelayAfter200 ==
  [][ /\ Len(log') = Len(log) => clock' = clock
      /\ Len(log') # Len(log) =>
           LET e == log'[Len(log')]
               slept == e.ok /\ e.n < EarlyStopThreshold
           IN  /\ Len(log') = Len(log) + 1
               /\ e.delay = slept
               /\ clock' = clock + e.took + (IF slept THEN DELAY_BETWEEN_REQUESTS ELSE 0) ]_vars

\* C17's case: the last path of a crawl returned 200 below the threshold and
\* the delay followed, with no fetch of that crawl after it
C17_Witness ==
  \E i \in Crawled : \E k \in FetchesOf(i) :
    /\ log[k].ok
    /\ log[k].delay
    /\ log[k].url = "https://" \o CrawlDomOf(i) \o paths[Len(paths)]
    /\ k + 1 \notin FetchesOf(i)

\* the fetches are issued domain after domain; the first fetch of a crawl is
\* the homepage, the second, if any, '/contatti', and there is no third
FetchOrder ==
  \A k \in 1..Len(log) :
    LET base == "https://" \o CrawlDomOf(log[k].d)
    IN  IF k = 1 \/ log[k - 1].d < log[k].d
        THEN log[k].url = base
        ELSE /\ log[k - 1].d = log[k].d
             /\ log[k - 1].url = base
             /\ log[k].url = base \o "/contatti"

\* a crawl that has ended has fetched every path or has stopped on the
\* threshold, and its outcome holds what was accumulated
CrawlEnds ==
  \A i \in Crawled :
    LET ks == FetchesOf(i)
    IN  /\ Cardinality(ks) \in 1..Len(paths)
        /\ \/ Cardinality(ks) = Len(paths)
           \/ log[Max(ks)].ok /\ log[Max(ks)].n >= EarlyStopThreshold
        /\ results[i].emails = UNION {log[k].got : k \in ks}

\* C18: the paths of a crawl are fetched in order, the homepage before
\* '/contatti', each at most once; a crawl issues at most len(paths) fetches,
\* each fetch takes it to the next path or ends it, and it always ends, the
\* paths exhausted or the early stop triggered, with the accumulated set.
C18_CrawlTerminates ==
  /\ [](FetchOrder /\ CrawlEnds)
  /\ [][pc = "crawl" => (Len(log') = Len(log) + 1
                           /\ (pc' = "loop" \/ (pc' = "crawl" /\ path_i' = path_i + 1)))]_vars
  /\ (pc = "crawl" ~> pc = "loop")

\* C18's case: one crawl has ended after both paths, the homepage first, and
\* another after the homepage alone, on the early stop
C18_Witness ==
  \E i, j \in Crawled :
    /\ Cardinality(FetchesOf(i)) = Len(paths)
    /\ log[Max(FetchesOf(i))].url = "https://" \o CrawlDomOf(i) \o "/contatti"
    /\ FetchesOf(j) = {Max(FetchesOf(j))}
    /\ log[Max(FetchesOf(j))].url = "https://" \o CrawlDomOf(j)
    /\ results[j].count >= EarlyStopThreshold

\* the results of request r hold the outcomes of its own domains, in the
\* order of its list, one per domain the loop is through with
OwnOutcomes(r) ==
  LET q == reqs[r]
  IN  /\ Len(q.results) <= Len(q.domains)
      /\ \A i \in 1..Len(q.results) :
           q.results[i].domain = clean_domain(q.domains[i].v)
      /\ q.pc \in {"loop", "crawl"} => Len(q.results) = q.idx - 1
      /\ q.pc = "done" => (q.response.results = q.results
                           /\ Len(q.results) = Len(q.domains))

\* C19: of two requests handled at the same time, each has in its results
\* the outcomes of its own domains only, in the order of its own list, and no
\* step of either request changes an outcome that is already in a list: a
\* list only grows at its end.
C19_RequestsIsolated ==
  /\ [](reqs # NoRequests => \A r \in Requests : OwnOutcomes(r))
  /\ [][reqs # NoRequests =>
          \A r \in Requests :
            /\ Len(reqs'[r].results) >= Len(reqs[r].results)
            /\ SubSeq(reqs'[r].results, 1, Len(reqs[r].results)) = reqs[r].results]_vars

\* C19's case: each request has appended an outcome and is in the crawl of
\* its second domain, suspended in a fetch
C19_Witness ==
  /\ reqs # NoRequests
  /\ \A r \in Requests :
       /\ reqs[r].pc = "crawl"
       /\ Len(reqs[r].results) = 1
       /\ reqs[r].results[1].count > 0
       /\ reqs[r].path_i = Len(paths)

=============================================================================
